---- MODULE Spec2Model ----
(***************************************************************************)
(* A model of the secure file upload server (server/python-flask/app.py).  *)
(*                                                                         *)
(* Strings the code inspects character by character (file names, paths)    *)
(* are sequences of one-character strings, so that splitext, abspath,      *)
(* startswith and secure_filename are computed as the code computes them.  *)
(* The file system is a function from paths to files; a file carries its   *)
(* bytes and, as a history field, the upload attempt that last wrote it.   *)
(***************************************************************************)
EXTENDS Integers, Sequences, FiniteSets, TLC

(***************************************************************************)
(* Bounds of the model.                                                    *)
(***************************************************************************)
\* upload attempts (concurrent POST /api/upload requests)
MaxUploads == 2
\* retrieval requests (concurrent GET /api/files/<filename> requests)
MaxGets == 1
\* the wall clock takes the seconds 0..MaxTime
MaxTime == 1
\* secrets.token_hex(8) takes one of NumTokens values
NumTokens == 2
\* longest base name (before the extension) of an enumerated client filename
MaxBaseLen == 3
\* longest path string given to is_path_safe
MaxPathLen == 5

(***************************************************************************)
(* Characters and strings.                                                 *)
(***************************************************************************)
UpperCase == <<"A","B","C","D","E","F","G","H","I","J","K","L","M",
               "N","O","P","Q","R","S","T","U","V","W","X","Y","Z">>
LowerCase == <<"a","b","c","d","e","f","g","h","i","j","k","l","m",
               "n","o","p","q","r","s","t","u","v","w","x","y","z">>
Digits == <<"0","1","2","3","4","5","6","7","8","9">>

Range(s) == {s[i] : i \in DOMAIN s}

\* str.lower() on one character
LowerChar(c) ==
    IF \E i \in DOMAIN UpperCase : UpperCase[i] = c
    THEN LowerCase[CHOOSE i \in DOMAIN UpperCase : UpperCase[i] = c]
    ELSE c

\* str.lower()
lower(s) == [i \in DOMAIN s |-> LowerChar(s[i])]

\* str.startswith(prefix)
startswith(s, prefix) ==
    /\ Len(prefix) <= Len(s)
    /\ \A i \in 1..Len(prefix) : s[i] = prefix[i]

\* str.rfind(c), 1-based, 0 when absent
rfind(s, c) ==
    IF \E i \in DOMAIN s : s[i] = c
    THEN CHOOSE i \in DOMAIN s : s[i] = c /\ \A j \in DOMAIN s : s[j] = c => j <= i
    ELSE 0

RECURSIVE SplitFrom(_, _, _, _)
SplitFrom(s, sep, i, cur) ==
    IF i > Len(s) THEN <<cur>>
    ELSE IF s[i] = sep THEN <<cur>> \o SplitFrom(s, sep, i + 1, <<>>)
    ELSE SplitFrom(s, sep, i + 1, Append(cur, s[i]))

\* str.split(sep)
split(s, sep) == SplitFrom(s, sep, 1, <<>>)

RECURSIVE join(_, _)
\* sep.join(parts)
join(sep, parts) ==
    IF parts = <<>> THEN <<>>
    ELSE IF Len(parts) = 1 THEN parts[1]
    ELSE parts[1] \o sep \o join(sep, Tail(parts))

\* str.replace(old, new) for one-character old and new
replace(s, old, new) == [i \in DOMAIN s |-> IF s[i] = old THEN new ELSE s[i]]

RECURSIVE lstrip(_, _)
lstrip(s, chars) ==
    IF s # <<>> /\ s[1] \in chars THEN lstrip(Tail(s), chars) ELSE s

RECURSIVE rstrip(_, _)
rstrip(s, chars) ==
    IF s # <<>> /\ s[Len(s)] \in chars THEN rstrip(SubSeq(s, 1, Len(s) - 1), chars) ELSE s

\* str.strip(chars)
strip(s, chars) == rstrip(lstrip(s, chars), chars)

\* s[:n]
Take(s, n) == SubSeq(s, 1, IF n < Len(s) THEN n ELSE Len(s))

\* all strings over alphabet of length at most n
RECURSIVE StringsUpTo(_, _)
StringsUpTo(alphabet, n) ==
    IF n = 0 THEN {<<>>}
    ELSE LET shorter == StringsUpTo(alphabet, n - 1)
         IN  shorter \cup {Append(s, c) : s \in shorter, c \in alphabet}

(***************************************************************************)
(* os.path (POSIX).                                                        *)
(***************************************************************************)
\* os.path.splitext: the extension starts at the last dot of the last path
\* component, leading dots of that component not counting
splitext(p) ==
    LET sepIndex == rfind(p, "/")
        dotIndex == rfind(p, ".")
    IN  IF /\ dotIndex > sepIndex
           /\ \E k \in (sepIndex + 1)..(dotIndex - 1) : p[k] # "."
        THEN <<SubSeq(p, 1, dotIndex - 1), SubSeq(p, dotIndex, Len(p))>>
        ELSE <<p, <<>>>>

\* os.path.isabs
isabs(p) == startswith(p, <<"/">>)

\* os.path.join(a, b)
path_join(a, b) ==
    IF isabs(b) THEN b
    ELSE IF a = <<>> \/ a[Len(a)] = "/" THEN a \o b
    ELSE a \o <<"/">> \o b

RECURSIVE NormComps(_, _, _)
\* the loop of os.path.normpath over the components of the path
NormComps(comps, new_comps, initial_slashes) ==
    IF comps = <<>> THEN new_comps
    ELSE LET comp == Head(comps)
         IN  IF comp = <<>> \/ comp = <<".">>
             THEN NormComps(Tail(comps), new_comps, initial_slashes)
             ELSE IF \/ comp # <<".", ".">>
                     \/ (initial_slashes = 0 /\ new_comps = <<>>)
                     \/ (new_comps # <<>> /\ new_comps[Len(new_comps)] = <<".", ".">>)
             THEN NormComps(Tail(comps), Append(new_comps, comp), initial_slashes)
             ELSE IF new_comps # <<>>
             THEN NormComps(Tail(comps), SubSeq(new_comps, 1, Len(new_comps) - 1),
                            initial_slashes)
             ELSE NormComps(Tail(comps), new_comps, initial_slashes)

\* os.path.normpath
normpath(path) ==
    IF path = <<>> THEN <<".">>
    ELSE LET initial_slashes ==
                 IF ~startswith(path, <<"/">>) THEN 0
                 ELSE IF startswith(path, <<"/", "/">>) /\ ~startswith(path, <<"/", "/", "/">>)
                 THEN 2 ELSE 1
             comps == NormComps(split(path, "/"), <<>>, initial_slashes)
             body == join(<<"/">>, comps)
             res == [i \in 1..initial_slashes |-> "/"] \o body
         IN  IF res = <<>> THEN <<".">> ELSE res

\* os.getcwd(): the directory the server is started in
getcwd == <<"/", "s", "r", "v">>

\* os.path.abspath
abspath(path) ==
    normpath(IF isabs(path) THEN path ELSE path_join(getcwd, path))

(***************************************************************************)
(* String literals of the program, as character sequences.                 *)
(***************************************************************************)
EXT_PDF  == <<".", "p", "d", "f">>
EXT_DOC  == <<".", "d", "o", "c">>
EXT_DOCX == <<".", "d", "o", "c", "x">>
EXT_TXT  == <<".", "t", "x", "t">>
EXT_JPG  == <<".", "j", "p", "g">>
EXT_JPEG == <<".", "j", "p", "e", "g">>
EXT_PNG  == <<".", "p", "n", "g">>
EXT_GIF  == <<".", "g", "i", "f">>

\* Python's None
None == "None"

\* mutant of Falsy: the handler does not test the sniffed type
Falsy_Never(x) == FALSE

\* Python truthiness of a string-or-None value ("if not x")
Falsy(x) == x = None \/ x = ""

(***************************************************************************)
(* Configuration.                                                          *)
(***************************************************************************)
\* os.path.dirname(__file__): where app.py is installed
AppDir == <<"/", "s", "r", "v">>

UPLOAD_FOLDER == path_join(AppDir, <<"u", "p", "l", "o", "a", "d", "s">>)

MAX_FILE_SIZE == 10 * 1024 * 1024

\* mutant of ALLOWED_EXTENSIONS: an extension no MIME type registers
ALLOWED_EXTENSIONS_Extra ==
    {EXT_PDF, EXT_DOC, EXT_DOCX, EXT_TXT, EXT_JPG, EXT_JPEG, EXT_PNG, EXT_GIF,
     <<".", "e", "x", "e">>}

ALLOWED_EXTENSIONS ==
    {EXT_PDF, EXT_DOC, EXT_DOCX, EXT_TXT, EXT_JPG, EXT_JPEG, EXT_PNG, EXT_GIF}

ALLOWED_MIME_TYPES ==
    [m \in {"application/pdf", "application/msword",
            "application/vnd.openxmlformats-officedocument.wordprocessingml.document",
            "text/plain", "image/jpeg", "image/png", "image/gif"} |->
        CASE m = "application/pdf" -> <<EXT_PDF>>
          [] m = "application/msword" -> <<EXT_DOC>>
          [] m = "application/vnd.openxmlformats-officedocument.wordprocessingml.document"
                -> <<EXT_DOCX>>
          [] m = "text/plain" -> <<EXT_TXT>>
          [] m = "image/jpeg" -> <<EXT_JPG, EXT_JPEG>>
          [] m = "image/png" -> <<EXT_PNG>>
          [] m = "image/gif" -> <<EXT_GIF>>]

\* app.config['MAX_CONTENT_LENGTH']
MAX_CONTENT_LENGTH == MAX_FILE_SIZE

(***************************************************************************)
(* File contents.  A byte string is known by its identity (data, a tuple of *)
(* labels), its length (size) and the signature its leading bytes carry    *)
(* (sig).                                                                  *)
(***************************************************************************)
\* the block size calculate_file_hash reads with
HASH_CHUNK == 4096

\* hashlib's SHA-256 of a byte string: a digest that determines the bytes
Sha256(bytes) == <<"sha256", bytes.data, bytes.size>>

\* the first n bytes of a byte string
Prefix(bytes, n) ==
    IF bytes.size <= n THEN bytes
    ELSE [data |-> Append(bytes.data, "[:n]"), size |-> n, sig |-> bytes.sig]

\* python-magic's Magic(mime=True) on the bytes of a file
MagicBytes(bytes) ==
    CASE bytes.size = 0 -> "inode/x-empty"
      [] bytes.sig = "jpeg" -> "image/jpeg"
      [] bytes.sig = "text" -> "text/plain"
      [] bytes.sig = "exe" -> "application/x-dosexec"
      [] OTHER -> "application/octet-stream"

(***************************************************************************)
(* Security utilities.                                                     *)
(***************************************************************************)
\* the characters werkzeug's _filename_ascii_strip_re keeps: [A-Za-z0-9_.-]
SafeChars == Range(UpperCase) \cup Range(LowerCase) \cup Range(Digits) \cup {"_", ".", "-"}

\* the ASCII characters of the model; any other character is non-ASCII
AsciiChars == SafeChars \cup {" ", "/", "!"}

\* mutant of secure_filename: the name is passed through as it came
secure_filename_Unsanitized(filename) == filename

\* werkzeug.utils.secure_filename (POSIX): drop non-ASCII characters, turn
\* path separators into spaces, join the whitespace-separated words with
\* "_", drop every character outside [A-Za-z0-9_.-], strip "." and "_"
\* from both ends
secure_filename(filename) ==
    LET ascii == SelectSeq(filename, LAMBDA c : c \in AsciiChars)
        nosep == replace(ascii, "/", " ")
        words == SelectSeq(split(nosep, " "), LAMBDA w : w # <<>>)
        joined == join(<<"_">>, words)
        kept == SelectSeq(joined, LAMBDA c : c \in SafeChars)
    IN  strip(kept, {".", "_"})

\* datetime.now().strftime('%Y%m%d_%H%M%S') at second t of the model's clock
strftime(t) ==
    <<"2","0","2","6","0","1","0","1","_","0","0","0","0","0">> \o <<Digits[t + 1]>>

\* secrets.token_hex(8): 16 hexadecimal digits, the k-th value of the model
token_hex(k) ==
    [i \in 1..15 |-> "0"] \o <<(Digits \o <<"a","b","c","d","e","f">>)[k + 1]>>

Timestamps == {strftime(t) : t \in 0..MaxTime}
Tokens == {token_hex(k) : k \in 1..NumTokens}

\* mutant of generate_secure_filename: the client's name is not sanitized
generate_secure_filename_Unsanitized(original_filename, timestamp, random_hash) ==
    LET parts == splitext(original_filename)
        name == IF parts[1] # <<>> THEN Take(parts[1], 50) ELSE <<"f", "i", "l", "e">>
    IN  name \o <<"_">> \o timestamp \o <<"_">> \o random_hash \o parts[2]

\* mutant of generate_secure_filename: the random token is left out
generate_secure_filename_NoToken(original_filename, timestamp, random_hash) ==
    LET parts == splitext(secure_filename(original_filename))
        name == IF parts[1] # <<>> THEN Take(parts[1], 50) ELSE <<"f", "i", "l", "e">>
    IN  name \o <<"_">> \o timestamp \o parts[2]

\* generate_secure_filename, given what datetime.now() and secrets.token_hex
\* return in the call
generate_secure_filename(original_filename, timestamp, random_hash) ==
    LET safe_name == secure_filename(original_filename)
        parts == splitext(safe_name)
        name == IF parts[1] # <<>> THEN Take(parts[1], 50) ELSE <<"f", "i", "l", "e">>
        ext == parts[2]
    IN  name \o <<"_">> \o timestamp \o <<"_">> \o random_hash \o ext

\* is_path_safe (abspath raises nothing on character strings)
is_path_safe(file_path, base_directory) ==
    LET abs_base == abspath(base_directory)
        abs_file == abspath(file_path)
    IN  startswith(abs_file, abs_base)

\* mutant of is_allowed_file_type: the MIME type is checked before the
\* extension
is_allowed_file_type_MimeFirst(filename, detected_mime) ==
    LET ext == lower(splitext(filename)[2])
    IN  IF detected_mime \notin DOMAIN ALLOWED_MIME_TYPES
        THEN <<FALSE, "MIME type {detected_mime} not allowed">>
        ELSE IF ext \notin ALLOWED_EXTENSIONS
        THEN <<FALSE, "Extension {ext} not allowed">>
        ELSE IF ext \notin Range(ALLOWED_MIME_TYPES[detected_mime])
        THEN <<FALSE, "Extension {ext} does not match detected MIME type {detected_mime}">>
        ELSE <<TRUE, None>>

\* is_allowed_file_type: <<allowed, reason>>
is_allowed_file_type(filename, detected_mime) ==
    LET ext == lower(splitext(filename)[2])
    IN  IF ext \notin ALLOWED_EXTENSIONS
        THEN <<FALSE, "Extension {ext} not allowed">>
        ELSE IF detected_mime \notin DOMAIN ALLOWED_MIME_TYPES
        THEN <<FALSE, "MIME type {detected_mime} not allowed">>
        ELSE IF ext \notin Range(ALLOWED_MIME_TYPES[detected_mime])
        THEN <<FALSE, "Extension {ext} does not match detected MIME type {detected_mime}">>
        ELSE <<TRUE, None>>

\* scan_file_for_viruses: the placeholder reads nothing and reports clean
scan_file_for_viruses(file_path) == [clean |-> TRUE, threats |-> <<>>]

(***************************************************************************)
(* State.                                                                  *)
(***************************************************************************)
VARIABLES
    fs,         \* the files on disk: path -> [bytes, owner]
    dirExists,  \* whether the directory UPLOAD_FOLDER exists
    up,         \* the upload attempts: attempt -> its request, locals, position
    get,        \* the retrieval requests: request -> its locals, position
    probe       \* the call of a pure function under check, and its result

vars == <<fs, dirExists, up, get, probe>>

Uploads == 1..MaxUploads
Gets == 1..MaxGets

NoBytes == [data |-> <<>>, size |-> 0, sig |-> "none"]
\* what a read of a path that holds no file is recorded as
NoFile == [bytes |-> NoBytes, owner |-> 0]

(***************************************************************************)
(* File system operations.                                                 *)
(***************************************************************************)
\* os.path.isfile
isfile(fsys, path) == path \in DOMAIN fsys

\* os.path.isdir, for the directories the server can name: the upload
\* folder (once created) and its ancestors
isdir(dir, path) ==
    LET abs == abspath(path)
    IN  \/ abs = abspath(UPLOAD_FOLDER) /\ dir
        \/ abs # abspath(UPLOAD_FOLDER) /\ startswith(abspath(UPLOAD_FOLDER), abs)
           /\ (abs = <<"/">> \/ abspath(UPLOAD_FOLDER)[Len(abs) + 1] = "/")

\* os.path.exists
exists(fsys, dir, path) == isfile(fsys, path) \/ isdir(dir, path)

\* open(path, 'wb') followed by the copy of the whole stream (file.save)
write_file(fsys, path, bytes, who) ==
    [q \in DOMAIN fsys \cup {path} |->
        IF q = path THEN [bytes |-> bytes, owner |-> who] ELSE fsys[q]]

\* os.remove
remove(fsys, path) == [q \in DOMAIN fsys \ {path} |-> fsys[q]]

\* the file at a path, NoFile when there is none
FileAt(fsys, path) == IF isfile(fsys, path) THEN fsys[path] ELSE NoFile

\* mutant of cleanup_file: the file is left where it is
cleanup_file_Skipped(fsys, file_path) == fsys

\* cleanup_file: the file system it leaves
cleanup_file(fsys, file_path) ==
    IF isfile(fsys, file_path) THEN remove(fsys, file_path) ELSE fsys

\* validate_file_size: <<within limit, size>>; <<FALSE, 0>> when getsize
\* raises, which it does when there is no file and when the operating
\* system refuses the call (oserror)
validate_file_size(fsys, file_path, max_size, oserror) ==
    IF isfile(fsys, file_path) /\ ~oserror
    THEN <<fsys[file_path].bytes.size <= max_size, fsys[file_path].bytes.size>>
    ELSE <<FALSE, 0>>

\* get_file_magic_type: the sniffed MIME type; None when from_file raises,
\* which it does when there is no file and when libmagic fails (oserror)
get_file_magic_type(fsys, file_path, oserror) ==
    IF isfile(fsys, file_path) /\ ~oserror
    THEN MagicBytes(fsys[file_path].bytes)
    ELSE None

\* mutant of calculate_file_hash: only the first block is hashed
calculate_file_hash_FirstBlock(fsys, file_path) ==
    Sha256(Prefix(fsys[file_path].bytes, HASH_CHUNK))

\* calculate_file_hash: every block of the file goes into the digest
\* (the caller checks that open() does not raise)
calculate_file_hash(fsys, file_path) == Sha256(fsys[file_path].bytes)

(***************************************************************************)
(* Requests and responses.                                                 *)
(***************************************************************************)
\* a request: whether it carries the field 'file', the client's filename
\* and the bytes
NoReq == [has_file |-> FALSE, filename |-> <<>>, content |-> NoBytes]

\* jsonify({'success': False, 'error': error}), status
ErrorResponse(status, error) ==
    [status |-> status, success |-> FALSE, error |-> error,
     url |-> <<>>, name |-> <<>>, size |-> 0, mime_type |-> None, hash |-> <<>>]

NoResp == ErrorResponse(0, "")

\* the 200 response of upload_file
SuccessResponse(secure_name, filename, file_size, detected_mime, file_hash) ==
    [status |-> 200, success |-> TRUE, error |-> "",
     url |-> <<"/","a","p","i","/","f","i","l","e","s","/">> \o secure_name,
     name |-> filename, size |-> file_size, mime_type |-> detected_mime,
     hash |-> file_hash]

\* mutant of HandleRequestEntityTooLarge: the clause is missing and the
\* outer handler answers
HandleRequestEntityTooLarge_Generic ==
    ErrorResponse(500, "Upload failed. Please try again.")

\* except RequestEntityTooLarge
HandleRequestEntityTooLarge ==
    ErrorResponse(413, "File too large. Maximum size: {MAX_FILE_SIZE}MB")

\* except Exception (the outer handler of upload_file)
HandleException == ErrorResponse(500, "Upload failed. Please try again.")

\* the length of the multipart body: the file's bytes and, around them, at
\* least the part header that names the file
content_length(req) == req.content.size + Len(req.filename) + 1

\* request.files raises RequestEntityTooLarge: Flask reads no more than
\* app.config['MAX_CONTENT_LENGTH'] bytes of a request body
RequestEntityTooLarge(req) == content_length(req) > MAX_CONTENT_LENGTH

\* scan_result before the scanner has been called
NoScan == [called |-> FALSE]

IdleUpload ==
    [pc |-> "idle", req |-> NoReq, secure_name |-> <<>>, file_path |-> <<>>,
     timestamp |-> <<>>, random_hash |-> <<>>,
     file_size |-> 0, detected_mime |-> None, saved |-> FALSE,
     scan_result |-> NoScan, stages |-> <<>>,
     pending |-> NoResp, resp |-> NoResp, at_resp |-> NoFile]

\* the record after one more stage of the pipeline ran, with its outcome
Ran(rec, stage, ok) == [rec EXCEPT !.stages = Append(@, <<stage, ok>>)]

\* the handler returns resp; at_resp records what is at its storage path then
Return(rec, resp, fsys) ==
    [rec EXCEPT !.pc = "done", !.resp = resp, !.pending = NoResp,
                !.at_resp = FileAt(fsys, rec.file_path)]

\* mutant of CleanupThenReturn: the rejection discloses the storage name
CleanupThenReturn_Disclosing(rec, resp) ==
    [rec EXCEPT !.pc = "cleanup", !.pending = [resp EXCEPT !.url = rec.secure_name]]

\* a rejection after the save: cleanup_file(file_path) runs, then resp returns
CleanupThenReturn(rec, resp) ==
    [rec EXCEPT !.pc = "cleanup", !.pending = resp]

(***************************************************************************)
(* upload_file.                                                            *)
(***************************************************************************)
\* ensure_upload_directory: mkdir(parents=True, exist_ok=True) leaves the
\* directory in place whether or not it was there
ensure_upload_directory(dir) == TRUE

\* line 259: os.path.join(app.config['UPLOAD_FOLDER'], secure_name)
StoragePath(secure_name) == path_join(UPLOAD_FOLDER, secure_name)

\* mutant of UploadBeginWith: validation #3, the extension check, is missing
UploadBeginWith_ExtensionUnchecked(u, req, timestamp, random_hash) ==
    /\ LET rec == [up[u] EXCEPT !.req = req]
           secure_name == generate_secure_filename(req.filename, timestamp, random_hash)
           file_path == StoragePath(secure_name)
           path_ok == is_path_safe(file_path, UPLOAD_FOLDER)
           named == Ran([rec EXCEPT !.secure_name = secure_name, !.file_path = file_path,
                                    !.timestamp = timestamp, !.random_hash = random_hash],
                        "path", path_ok)
       IN  IF RequestEntityTooLarge(req)
           THEN /\ up' = [up EXCEPT ![u] = Return(rec, HandleRequestEntityTooLarge, fs)]
                /\ UNCHANGED dirExists
           ELSE IF ~req.has_file
           THEN /\ up' = [up EXCEPT ![u] =
                            Return(rec, ErrorResponse(400, "No file provided"), fs)]
                /\ UNCHANGED dirExists
           ELSE IF req.filename = <<>>
           THEN /\ up' = [up EXCEPT ![u] =
                            Return(rec, ErrorResponse(400, "No file selected"), fs)]
                /\ UNCHANGED dirExists
           ELSE /\ dirExists' = ensure_upload_directory(dirExists)
                /\ IF ~path_ok
                   THEN up' = [up EXCEPT ![u] =
                                 Return(named, ErrorResponse(400, "Invalid file path"), fs)]
                   ELSE up' = [up EXCEPT ![u] = [named EXCEPT !.pc = "save"]]
    /\ UNCHANGED <<fs, get, probe>>

\* lines 229-267: the checks before the write, and the storage name
UploadBeginWith(u, req, timestamp, random_hash) ==
    /\ LET rec == [up[u] EXCEPT !.req = req]
           ext == lower(splitext(req.filename)[2])
           secure_name == generate_secure_filename(req.filename, timestamp, random_hash)
           file_path == StoragePath(secure_name)
           path_ok == is_path_safe(file_path, UPLOAD_FOLDER)
           named == Ran([rec EXCEPT !.secure_name = secure_name, !.file_path = file_path,
                                    !.timestamp = timestamp, !.random_hash = random_hash],
                        "path", path_ok)
       IN  IF RequestEntityTooLarge(req)
           THEN /\ up' = [up EXCEPT ![u] = Return(rec, HandleRequestEntityTooLarge, fs)]
                /\ UNCHANGED dirExists
           ELSE IF ~req.has_file
           THEN /\ up' = [up EXCEPT ![u] =
                            Return(rec, ErrorResponse(400, "No file provided"), fs)]
                /\ UNCHANGED dirExists
           ELSE IF req.filename = <<>>
           THEN /\ up' = [up EXCEPT ![u] =
                            Return(rec, ErrorResponse(400, "No file selected"), fs)]
                /\ UNCHANGED dirExists
           ELSE IF ext \notin ALLOWED_EXTENSIONS
           THEN /\ up' = [up EXCEPT ![u] =
                            Return(rec, ErrorResponse(400,
                                "File type not allowed. Allowed types: {ALLOWED_EXTENSIONS}"), fs)]
                /\ UNCHANGED dirExists
           ELSE /\ dirExists' = ensure_upload_directory(dirExists)
                /\ IF ~path_ok
                   THEN up' = [up EXCEPT ![u] =
                                 Return(named, ErrorResponse(400, "Invalid file path"), fs)]
                   ELSE up' = [up EXCEPT ![u] = [named EXCEPT !.pc = "save"]]
    /\ UNCHANGED <<fs, get, probe>>

\* attempt u arrives (attempts are numbered in their order of arrival) with
\* one of the requests; datetime.now() and secrets.token_hex(8) return any
\* of their values
UploadBegin(u, requests) ==
    /\ up[u].pc = "idle"
    /\ IF u = 1 THEN TRUE ELSE up[u - 1].pc # "idle"
    /\ \E req \in requests, timestamp \in Timestamps, random_hash \in Tokens :
          UploadBeginWith(u, req, timestamp, random_hash)

\* line 270: file.save(file_path) writes the whole stream
UploadSave(u) ==
    /\ up[u].pc = "save"
    /\ fs' = write_file(fs, up[u].file_path, up[u].req.content, u)
    /\ up' = [up EXCEPT ![u] = [Ran(@, "write", TRUE) EXCEPT !.pc = "size", !.saved = TRUE]]
    /\ UNCHANGED <<dirExists, get, probe>>

\* line 270: file.save(file_path) raises (the disk is full, an I/O error),
\* in open() or, with the file created and still empty, in the copy; the
\* exception reaches the outer handler
UploadSaveFails(u, opened) ==
    /\ up[u].pc = "save"
    /\ fs' = IF opened
             THEN write_file(fs, up[u].file_path, Prefix(up[u].req.content, 0), u)
             ELSE fs
    /\ up' = [up EXCEPT ![u] = Return(Ran(@, "write", FALSE), HandleException, fs')]
    /\ UNCHANGED <<dirExists, get, probe>>

\* mutant of UploadSize: the pipeline goes on after a failed size re-check
UploadSize_Continuing(u, oserror) ==
    /\ up[u].pc = "size"
    /\ LET checked == validate_file_size(fs, up[u].file_path, MAX_FILE_SIZE, oserror)
           rec == Ran([up[u] EXCEPT !.file_size = checked[2]], "size", checked[1])
       IN  up' = [up EXCEPT ![u] = [rec EXCEPT !.pc = "sniff"]]
    /\ UNCHANGED <<fs, dirExists, get, probe>>

\* lines 274-281: the size re-check
UploadSize(u, oserror) ==
    /\ up[u].pc = "size"
    /\ LET checked == validate_file_size(fs, up[u].file_path, MAX_FILE_SIZE, oserror)
           rec == Ran([up[u] EXCEPT !.file_size = checked[2]], "size", checked[1])
       IN  IF ~checked[1]
           THEN up' = [up EXCEPT ![u] = CleanupThenReturn(rec, ErrorResponse(400,
                         "File size ({file_size}MB) exceeds maximum allowed size ({MAX_FILE_SIZE}MB)"))]
           ELSE up' = [up EXCEPT ![u] = [rec EXCEPT !.pc = "sniff"]]
    /\ UNCHANGED <<fs, dirExists, get, probe>>

\* mutant of ScanRejection: the response carries the threat list
ScanRejection_Disclosing(scan_result) == ErrorResponse(400, scan_result.threats)

\* lines 308-311: the response to a verdict that is not clean
ScanRejection(scan_result) == ErrorResponse(400, "File failed security scan")

\* lines 283-311: the sniff, the type policy and the scan, given what the
\* scanner returns
UploadSniffWith(u, oserror, scan_result) ==
    /\ up[u].pc = "sniff"
    /\ LET detected_mime == get_file_magic_type(fs, up[u].file_path, oserror)
           policy == is_allowed_file_type(up[u].req.filename, detected_mime)
           sniffed == Ran([up[u] EXCEPT !.detected_mime = detected_mime],
                          "sniff", detected_mime \notin {None, ""})
           checked == Ran(sniffed, "policy", policy[1])
           scanned == Ran([checked EXCEPT !.scan_result = scan_result],
                          "scan", scan_result.clean)
       IN  IF Falsy(detected_mime)
           THEN up' = [up EXCEPT ![u] = CleanupThenReturn(sniffed,
                         ErrorResponse(400, "Could not verify file type"))]
           ELSE IF ~policy[1]
           THEN up' = [up EXCEPT ![u] = CleanupThenReturn(checked,
                         ErrorResponse(400, policy[2]))]
           ELSE IF ~scan_result.clean
           THEN up' = [up EXCEPT ![u] = CleanupThenReturn(scanned,
                                                         ScanRejection(scan_result))]
           ELSE up' = [up EXCEPT ![u] = [scanned EXCEPT !.pc = "hash"]]
    /\ UNCHANGED <<fs, dirExists, get, probe>>

\* lines 283-311 with the scanner of this repository
UploadSniff(u, oserror) ==
    UploadSniffWith(u, oserror, scan_file_for_viruses(up[u].file_path))

\* lines 313-335: the hash and the 200 response; when open() raises, the
\* inner handler cleans up and re-raises to the outer handler
UploadHash(u) ==
    /\ up[u].pc = "hash"
    /\ IF isfile(fs, up[u].file_path)
       THEN up' = [up EXCEPT ![u] = Return(Ran(@, "hash", TRUE),
                     SuccessResponse(@.secure_name, @.req.filename, @.file_size,
                                     @.detected_mime,
                                     calculate_file_hash(fs, @.file_path)), fs)]
       ELSE up' = [up EXCEPT ![u] = CleanupThenReturn(Ran(@, "hash", FALSE),
                                                      HandleException)]
    /\ UNCHANGED <<fs, dirExists, get, probe>>

\* cleanup_file(file_path) and the return (or re-raise) that follows it
UploadCleanup(u) ==
    /\ up[u].pc = "cleanup"
    /\ fs' = cleanup_file(fs, up[u].file_path)
    /\ up' = [up EXCEPT ![u] = Return(@, @.pending, fs')]
    /\ UNCHANGED <<dirExists, get, probe>>

(***************************************************************************)
(* get_file.                                                               *)
(***************************************************************************)
\* jsonify({'success': False, 'error': error}), status
GetError(status, error) ==
    [status |-> status, error |-> error, body |-> NoBytes,
     as_attachment |-> FALSE, headers |-> {}]

\* send_from_directory(..., as_attachment=True) with the security headers
GetFileResponse(bytes) ==
    [status |-> 200, error |-> "", body |-> bytes, as_attachment |-> TRUE,
     headers |-> {"X-Content-Type-Options: nosniff", "X-Frame-Options: DENY",
                  "Content-Security-Policy: default-src 'none'"}]

\* whether attempt u has returned its 200 response
Accepted(u) == up[u].pc = "done" /\ up[u].resp.status = 200

\* whether some accepted upload has this storage name
IsAcceptedName(name) == \E u \in Uploads : Accepted(u) /\ up[u].secure_name = name

IdleGet ==
    [pc |-> "idle", filename |-> <<>>, safe_filename |-> <<>>, file_path |-> <<>>,
     resp |-> GetError(0, ""), served |-> NoFile, served_accepted |-> FALSE,
     name_accepted |-> FALSE]

\* the handler returns resp; name_accepted records whether the requested
\* name was the storage name of an accepted upload then
GetReturn(rec, resp) ==
    [rec EXCEPT !.pc = "done", !.resp = resp,
                !.name_accepted = IsAcceptedName(rec.filename)]

\* lines 356-374: sanitize, path check, existence check
GetBeginWith(g, filename) ==
    /\ LET safe_filename == secure_filename(filename)
           file_path == path_join(UPLOAD_FOLDER, safe_filename)
           rec == [get[g] EXCEPT !.filename = filename,
                                 !.safe_filename = safe_filename,
                                 !.file_path = file_path]
       IN  IF ~is_path_safe(file_path, UPLOAD_FOLDER)
           THEN get' = [get EXCEPT ![g] = GetReturn(rec, GetError(403, "Access denied"))]
           ELSE IF ~exists(fs, dirExists, file_path)
           THEN get' = [get EXCEPT ![g] = GetReturn(rec, GetError(404, "File not found"))]
           ELSE get' = [get EXCEPT ![g] = [rec EXCEPT !.pc = "send"]]
    /\ UNCHANGED <<fs, dirExists, up, probe>>

\* retrieval g arrives (retrievals are numbered in their order of arrival)
\* asking for one of the names
GetBegin(g, names) ==
    /\ get[g].pc = "idle"
    /\ IF g = 1 THEN TRUE ELSE get[g - 1].pc # "idle"
    /\ \E filename \in names : GetBeginWith(g, filename)

\* lines 376-395: send_from_directory raises NotFound unless the path is a
\* regular file; NotFound is an Exception, which the handler turns into 500
GetSend(g) ==
    /\ get[g].pc = "send"
    /\ IF isfile(fs, get[g].file_path)
       THEN get' = [get EXCEPT ![g] =
                      [GetReturn(@, GetFileResponse(fs[@.file_path].bytes)) EXCEPT
                          !.served = fs[get[g].file_path],
                          !.served_accepted = Accepted(fs[get[g].file_path].owner)]]
       ELSE get' = [get EXCEPT ![g] =
                      GetReturn(@, GetError(500, "Failed to retrieve file"))]
    /\ UNCHANGED <<fs, dirExists, up, probe>>

(***************************************************************************)
(* is_path_safe on its own.                                                *)
(***************************************************************************)
NoProbe == [file_path |-> <<>>, base_directory |-> <<>>, done |-> FALSE, result |-> FALSE]

CheckPath ==
    /\ ~probe.done
    /\ probe' = [probe EXCEPT !.done = TRUE,
                    !.result = is_path_safe(probe.file_path, probe.base_directory)]
    /\ UNCHANGED <<fs, dirExists, up, get>>

(***************************************************************************)
(* is_allowed_file_type on its own.                                        *)
(***************************************************************************)
NoTypeProbe == [filename |-> <<>>, detected_mime |-> None, done |-> FALSE,
                result |-> <<FALSE, None>>]

CheckType ==
    /\ ~probe.done
    /\ probe' = [probe EXCEPT !.done = TRUE,
                    !.result = is_allowed_file_type(probe.filename, probe.detected_mime)]
    /\ UNCHANGED <<fs, dirExists, up, get>>

(***************************************************************************)
(* Inputs.                                                                 *)
(***************************************************************************)
JpegA == [data |-> <<"A">>, size |-> 2048, sig |-> "jpeg"]
JpegB == [data |-> <<"B">>, size |-> 5000, sig |-> "jpeg"]
Exe   == [data |-> <<"X">>, size |-> 2048, sig |-> "exe"]
Big   == [data |-> <<"G">>, size |-> MAX_FILE_SIZE + 1, sig |-> "jpeg"]

PhotoJpg == <<"a", ".", "j", "p", "g">>
SetupExe == <<"a", ".", "e", "x", "e">>
EtcPasswd == <<".", ".", "/", ".", ".", "/", "e", "t", "c", "/", "p", "a", "s", "s", "w", "d">>
TraversalJpg == <<".", ".", "/", ".", ".", "/", "a", ".", "j", "p", "g">>

\* the requests of the concurrent specification
SpecRequests ==
    {[has_file |-> TRUE, filename |-> PhotoJpg, content |-> c] :
        c \in {JpegA, JpegB, Exe, Big}}

\* the storage names the concurrent specification can generate
SpecStorageNames ==
    {generate_secure_filename(PhotoJpg, ts, tok) : ts \in Timestamps, tok \in Tokens}

\* the names retrievals ask for: every storage name, a name that sanitizes
\* to the empty string, and a name no upload gets
GetNames ==
    SpecStorageNames \cup {<<"_", "_", "_">>, <<"n", ".", "t", "x", "t">>}

\* "<U+65E5>" stands for one non-ASCII character
BaseAlphabet == {"a", "_", ".", "/", "<U+65E5>"}
TestExts == {<<>>, EXT_JPG, <<".", "J", "P", "G">>, EXT_TXT, <<".", "e", "x", "e">>}

\* the client filenames of the single-upload specification
TestFilenames ==
    {b \o e : b \in StringsUpTo(BaseAlphabet, MaxBaseLen), e \in TestExts}
    \cup {EtcPasswd, TraversalJpg}

RichRequests ==
    {[has_file |-> TRUE, filename |-> f, content |-> c] :
        f \in TestFilenames, c \in {JpegA, Exe}}
    \cup {[has_file |-> FALSE, filename |-> <<>>, content |-> NoBytes],
          [has_file |-> TRUE, filename |-> <<>>, content |-> JpegA],
          [has_file |-> TRUE, filename |-> SetupExe, content |-> Big]}

\* the filenames and MIME types is_allowed_file_type is applied to: every
\* allowed extension, upper-case spellings, extensions that are not
\* allowed, no extension, a dot file; every allowed type, types that are
\* not allowed, no type
TypeExts ==
    ALLOWED_EXTENSIONS \cup TestExts
        \cup {<<".", "P", "d", "f">>, <<".", "p", "n", "g", "x">>, <<".">>}
TypeFilenames == {<<"a">> \o e : e \in TypeExts} \cup {EXT_JPG, <<"a", ".", "j", "p", "g", ".", "e", "x", "e">>}
TypeMimes ==
    DOMAIN ALLOWED_MIME_TYPES
        \cup {"application/x-dosexec", "application/octet-stream", "inode/x-empty", None}

\* the verdicts a scanner can return: clean, and not clean with one, two
\* or no named threats
ScanVerdicts ==
    {[clean |-> TRUE, threats |-> <<>>],
     [clean |-> FALSE, threats |-> <<"Eicar-Test-Signature">>],
     [clean |-> FALSE, threats |-> <<"Win.Trojan.Agent", "Eicar-Test-Signature">>],
     [clean |-> FALSE, threats |-> <<>>]}

PathAlphabet == {"/", ".", "u", "x"}
ProbeBases == {<<"/", "u">>, <<"/", "u", "/">>, <<"/">>, <<"x">>}

(***************************************************************************)
(* Specifications.                                                         *)
(***************************************************************************)
Init ==
    /\ fs = <<>>
    /\ dirExists \in BOOLEAN
    /\ up = [u \in Uploads |-> IdleUpload]
    /\ get = [g \in Gets |-> IdleGet]
    /\ probe = NoProbe

\* the server under concurrent uploads and retrievals
Next ==
    \/ \E u \in Uploads : UploadBegin(u, SpecRequests)
    \/ \E u \in Uploads : UploadSave(u)
    \/ \E u \in Uploads, opened \in BOOLEAN : UploadSaveFails(u, opened)
    \/ \E u \in Uploads, oserror \in BOOLEAN : UploadSize(u, oserror)
    \/ \E u \in Uploads, oserror \in BOOLEAN : UploadSniff(u, oserror)
    \/ \E u \in Uploads : UploadHash(u)
    \/ \E u \in Uploads : UploadCleanup(u)
    \/ \E g \in Gets : GetBegin(g, GetNames)
    \/ \E g \in Gets : GetSend(g)

Spec == Init /\ [][Next]_vars

\* one upload at a time, over every enumerated client filename
NextUpload ==
    \/ UploadBegin(1, RichRequests)
    \/ UploadSave(1)
    \/ \E opened \in BOOLEAN : UploadSaveFails(1, opened)
    \/ \E oserror \in BOOLEAN : UploadSize(1, oserror)
    \/ \E oserror \in BOOLEAN : UploadSniff(1, oserror)
    \/ UploadHash(1)
    \/ UploadCleanup(1)

SpecUpload == Init /\ [][NextUpload]_vars

\* one upload at a time, with a scanner that returns any verdict in place
\* of the placeholder
NextScan ==
    \/ UploadBegin(1, SpecRequests)
    \/ UploadSave(1)
    \/ \E opened \in BOOLEAN : UploadSaveFails(1, opened)
    \/ \E oserror \in BOOLEAN : UploadSize(1, oserror)
    \/ \E oserror \in BOOLEAN, scan_result \in ScanVerdicts :
          UploadSniffWith(1, oserror, scan_result)
    \/ UploadHash(1)
    \/ UploadCleanup(1)

SpecScan == Init /\ [][NextScan]_vars

\* one request at a time, an upload or a retrieval, over every enumerated
\* client filename
NextSites ==
    \/ get[1].pc = "idle" /\ UploadBegin(1, RichRequests)
    \/ UploadSave(1)
    \/ \E opened \in BOOLEAN : UploadSaveFails(1, opened)
    \/ \E oserror \in BOOLEAN : UploadSize(1, oserror)
    \/ \E oserror \in BOOLEAN : UploadSniff(1, oserror)
    \/ UploadHash(1)
    \/ UploadCleanup(1)
    \/ up[1].pc = "idle" /\ GetBegin(1, TestFilenames)
    \/ GetSend(1)

SpecSites == Init /\ [][NextSites]_vars

\* is_path_safe over every enumerated pair of paths
InitPath ==
    /\ fs = <<>>
    /\ dirExists = TRUE
    /\ up = [u \in Uploads |-> IdleUpload]
    /\ get = [g \in Gets |-> IdleGet]
    /\ probe \in {[NoProbe EXCEPT !.file_path = f, !.base_directory = b] :
                     f \in StringsUpTo(PathAlphabet, MaxPathLen), b \in ProbeBases}

NextPath == CheckPath

SpecPath == InitPath /\ [][NextPath]_vars

\* is_allowed_file_type over every enumerated filename and MIME type
InitType ==
    /\ fs = <<>>
    /\ dirExists = TRUE
    /\ up = [u \in Uploads |-> IdleUpload]
    /\ get = [g \in Gets |-> IdleGet]
    /\ probe \in {[NoTypeProbe EXCEPT !.filename = f, !.detected_mime = m] :
                     f \in TypeFilenames, m \in TypeMimes}

NextType == CheckType

SpecType == InitType /\ [][NextType]_vars

(***************************************************************************)
(* Properties.                                                             *)
(***************************************************************************)
\* attempt u has been given a storage name and path
Named(u) == up[u].file_path # <<>>

\* attempt u has returned a response
Done(u) == up[u].pc = "done"

\* a path directly inside UPLOAD_FOLDER: the folder, a separator and one
\* name that is no directory reference and holds no separator
DirectChild(path) ==
    LET prefix == UPLOAD_FOLDER \o <<"/">>
        name == SubSeq(path, Len(prefix) + 1, Len(path))
    IN  /\ startswith(path, prefix)
        /\ name \notin {<<>>, <<".">>, <<".", ".">>}
        /\ "/" \notin Range(name)

C2_StoredExtensionMatchesMime ==
    \A u \in Uploads :
        Accepted(u) =>
            /\ up[u].detected_mime \in DOMAIN ALLOWED_MIME_TYPES
            /\ splitext(up[u].secure_name)[2]
                  \in Range(ALLOWED_MIME_TYPES[up[u].detected_mime])

\* the canonical form of file_path is the canonical base or lies beneath it
Within(abs_file, abs_base) ==
    \/ abs_file = abs_base
    \/ startswith(abs_file,
                  IF abs_base[Len(abs_base)] = "/" THEN abs_base ELSE abs_base \o <<"/">>)

\* C3: is_path_safe returns true exactly when the absolute normalized
\* file path is the absolute normalized base directory or lies beneath it.
C3_PathSafeIffWithin ==
    probe.done =>
        (probe.result <=> Within(abspath(probe.file_path), abspath(probe.base_directory)))

\* C4: every path upload_file writes to or cleans up, and every file on
\* disk, is a direct child of UPLOAD_FOLDER, and the name ../../etc/passwd
\* is rejected with 400 with nothing named or written.
C4_WritesStayInRoot ==
    /\ \A path \in DOMAIN fs : DirectChild(path)
    /\ \A u \in Uploads :
          /\ up[u].pc \in {"save", "size", "sniff", "hash", "cleanup"}
                => DirectChild(up[u].file_path)
          /\ up[u].saved => DirectChild(up[u].file_path)
          /\ (Done(u) /\ up[u].req.filename = EtcPasswd)
                => /\ up[u].resp.status = 400
                   /\ ~up[u].saved
                   /\ DOMAIN fs = {}

\* C4 witness: a client filename with a path separator in it was written,
\* inside the folder, and the name ../../etc/passwd was rejected.
C4_Witness ==
    \E u \in Uploads :
        /\ "/" \in Range(up[u].req.filename)
        /\ up[u].saved
        /\ up[u].file_path \in DOMAIN fs

\* the two oversize reasons: of the transport limit, of the size re-check
OversizeReasons ==
    {"File too large. Maximum size: {MAX_FILE_SIZE}MB",
     "File size ({file_size}MB) exceeds maximum allowed size ({MAX_FILE_SIZE}MB)"}

C6_InternalFailureLeavesNoFile ==
    \A u \in Uploads :
        (Done(u) /\ up[u].resp.status = 500) =>
            /\ up[u].resp = HandleException
            /\ up[u].at_resp = NoFile

\* C7: a retrieval of a name that is the storage name of no accepted upload
\* is answered 404 'File not found'.
C7_UnknownNameIs404 ==
    \A g \in Gets :
        (get[g].pc = "done" /\ ~get[g].name_accepted) =>
            /\ get[g].resp.status = 404
            /\ get[g].resp.error = "File not found"

\* C8 as claimed: every retrieval answered 200 serves a file whose upload
\* had reached Accepted when it was served.
C8_NoReadBeforeAccepted ==
    \A g \in Gets :
        (get[g].pc = "done" /\ get[g].resp.status = 200) => get[g].served_accepted

\* C8, amended: a retrieval is served a file whose upload has not reached
\* Accepted only under that file's storage name (the requested name
\* sanitizes to the storage name of the attempt that wrote the file), and
\* upload_file discloses a storage name in no response but the 200 response.
C8_PendingReadOnlyByStorageName ==
    /\ \A g \in Gets :
          (get[g].pc = "done" /\ get[g].resp.status = 200) =>
              /\ get[g].resp.body = get[g].served.bytes
              /\ get[g].served.owner \in Uploads
              /\ get[g].safe_filename = up[get[g].served.owner].secure_name
    /\ \A u \in Uploads :
          /\ up[u].resp.url # <<>> => up[u].resp.status = 200
          /\ up[u].pending.url = <<>>

\* C8 witness: a retrieval was answered 200 with a file whose upload had
\* not reached Accepted.
C8_Witness ==
    \E g \in Gets :
        /\ get[g].pc = "done" /\ get[g].resp.status = 200
        /\ ~get[g].served_accepted

\* C9 as claimed: two attempts never have the same storage path, and the
\* file of an accepted upload stays on disk with its own content.
C9_NamesNeverCollide ==
    /\ \A u, v \in Uploads :
          (u # v /\ Named(u) /\ Named(v)) => up[u].file_path # up[v].file_path
    /\ \A u \in Uploads :
          Accepted(u) =>
              FileAt(fs, up[u].file_path) = [bytes |-> up[u].req.content, owner |-> u]

\* C9, amended: two attempts whose timestamp or random token differ have
\* different storage paths, and the file of an accepted upload whose
\* storage path no other attempt generated stays on disk with its own
\* content.
C9_DistinctTokensNeverCollide ==
    /\ \A u, v \in Uploads :
          (/\ u # v /\ Named(u) /\ Named(v)
           /\ <<up[u].timestamp, up[u].random_hash>> # <<up[v].timestamp, up[v].random_hash>>)
              => up[u].file_path # up[v].file_path
    /\ \A u \in Uploads :
          (Accepted(u) /\ \A v \in Uploads \ {u} : up[v].file_path # up[u].file_path)
              => FileAt(fs, up[u].file_path) = [bytes |-> up[u].req.content, owner |-> u]

\* C9 witness: two attempts with the same client filename and timestamp
\* and different tokens are both accepted, each file with its own content.
C9_Witness ==
    \E u, v \in Uploads :
        /\ u # v /\ Accepted(u) /\ Accepted(v)
        /\ up[u].req.filename = up[v].req.filename
        /\ up[u].timestamp = up[v].timestamp
        /\ up[u].random_hash # up[v].random_hash
        /\ up[u].req.content # up[v].req.content
        /\ FileAt(fs, up[u].file_path).bytes = up[u].req.content
        /\ FileAt(fs, up[v].file_path).bytes = up[v].req.content

EndsWith(s, t) ==
    /\ Len(t) <= Len(s)
    /\ SubSeq(s, Len(s) - Len(t) + 1, Len(s)) = t

\* C11: the storage name generate_secure_filename gives an attempt ends with
\* the lower-cased extension of the client filename and is never empty, "."
\* or "..".
C11_StorageNameKeepsLowerExt ==
    \A u \in Uploads :
        Named(u) =>
            /\ EndsWith(up[u].secure_name, lower(splitext(up[u].req.filename)[2]))
            /\ up[u].secure_name \notin {<<>>, <<".">>, <<".", ".">>}

\* a request validations #1-#3 turn down: no file field, an empty filename
\* or an extension outside ALLOWED_EXTENSIONS
Unacceptable(req) ==
    \/ ~req.has_file
    \/ req.filename = <<>>
    \/ lower(splitext(req.filename)[2]) \notin ALLOWED_EXTENSIONS

\* the step in which attempt u takes up a request validations #1-#3 turn
\* down ends the attempt and changes nothing on disk
TurnedDownUnchanged(u) ==
    (up[u].pc = "idle" /\ up'[u].pc # "idle" /\ Unacceptable(up'[u].req)) =>
        /\ up'[u].pc = "done"
        /\ ~up'[u].saved /\ up'[u].file_path = <<>> /\ up'[u].stages = <<>>
        /\ fs' = fs /\ dirExists' = dirExists

\* C12 as claimed: a request with no file field, an empty filename or an
\* extension outside ALLOWED_EXTENSIONS is answered 400 with the file system
\* unchanged.
C12_TurnedDown400 ==
    [][\A u \in Uploads :
          /\ TurnedDownUnchanged(u)
          /\ (up[u].pc = "idle" /\ up'[u].pc # "idle" /\ Unacceptable(up'[u].req))
                => up'[u].resp.status = 400]_vars

\* C12, amended: such a request is answered in the step it arrives, with
\* the file system unchanged (no file or directory created, no file
\* deleted); the answer is 413 when the body exceeds MAX_CONTENT_LENGTH,
\* which is found first, and 400 otherwise.
C12_TurnedDownBeforeAnyWrite ==
    [][\A u \in Uploads :
          /\ TurnedDownUnchanged(u)
          /\ (up[u].pc = "idle" /\ up'[u].pc # "idle" /\ Unacceptable(up'[u].req))
                => up'[u].resp.status =
                      IF RequestEntityTooLarge(up'[u].req) THEN 413 ELSE 400]_vars

\* C12 witness: a request with an extension outside ALLOWED_EXTENSIONS was
\* answered 400 with nothing named, written or created.
C12_Witness ==
    \E u \in Uploads :
        /\ Done(u) /\ up[u].req.has_file /\ up[u].req.filename # <<>>
        /\ lower(splitext(up[u].req.filename)[2]) \notin ALLOWED_EXTENSIONS
        /\ up[u].resp.status = 400
        /\ ~up[u].saved /\ fs = <<>> /\ ~dirExists

\* the stages of upload_file from the path check on, in the order of the code
StageOrder == <<"path", "write", "size", "sniff", "policy", "scan", "hash">>

\* the stages attempt u ran are the first stages of StageOrder, in order,
\* and none of them but the last one failed
RanInOrder(u) ==
    LET st == up[u].stages
    IN  /\ Len(st) <= Len(StageOrder)
        /\ \A i \in 1..Len(st) : st[i][1] = StageOrder[i]
        /\ \A i \in 1..(Len(st) - 1) : st[i][2]

\* C13: an attempt runs the stages in the order path check, write, size
\* re-check, sniff, type policy, scan, hash, each only after all earlier
\* ones succeeded; it is accepted only with all seven succeeded; after a
\* failed stage it only cleans up and returns its rejection; and once it
\* has returned it does nothing more.
C13_StagesInOrder ==
    /\ [](\A u \in Uploads :
            /\ RanInOrder(u)
            /\ Accepted(u) =>
                  /\ Len(up[u].stages) = Len(StageOrder)
                  /\ \A i \in 1..Len(up[u].stages) : up[u].stages[i][2]
            /\ (\E i \in 1..Len(up[u].stages) : ~up[u].stages[i][2]) =>
                  /\ up[u].pc \in {"cleanup", "done"}
                  /\ (IF Done(u) THEN up[u].resp ELSE up[u].pending).status \in {400, 500})
    /\ [][\A u \in Uploads : Done(u) => up'[u] = up[u]]_vars

\* C13 witness: an attempt was accepted after its seven stages.
C13_Witness ==
    \E u \in Uploads :
        /\ Accepted(u)
        /\ Len(up[u].stages) = 7
        /\ up[u].stages[7] = <<"hash", TRUE>>

\* the three reasons of is_allowed_file_type, in the order of its checks
TypeReasons ==
    <<"Extension {ext} not allowed",
      "MIME type {detected_mime} not allowed",
      "Extension {ext} does not match detected MIME type {detected_mime}">>

\* C14: is_allowed_file_type returns (True, None) exactly when the
\* lower-cased extension is allowed, the MIME type is a key of
\* ALLOWED_MIME_TYPES and the extension is registered for it; otherwise it
\* returns False with the reason of the first failing check, and the three
\* reasons are pairwise distinct.
C14_TypePolicy ==
    probe.done =>
        LET ext == lower(splitext(probe.filename)[2])
            extOk == ext \in ALLOWED_EXTENSIONS
            mimeOk == probe.detected_mime \in DOMAIN ALLOWED_MIME_TYPES
            matchOk == mimeOk /\ \E i \in 1..Len(ALLOWED_MIME_TYPES[probe.detected_mime]) :
                                    ALLOWED_MIME_TYPES[probe.detected_mime][i] = ext
        IN  /\ (probe.result = <<TRUE, None>>) <=> (extOk /\ mimeOk /\ matchOk)
            /\ probe.result[1] <=> (extOk /\ mimeOk /\ matchOk)
            /\ ~extOk => probe.result = <<FALSE, TypeReasons[1]>>
            /\ (extOk /\ ~mimeOk) => probe.result = <<FALSE, TypeReasons[2]>>
            /\ (extOk /\ mimeOk /\ ~matchOk) => probe.result = <<FALSE, TypeReasons[3]>>
            /\ \A i, j \in 1..3 : i # j => TypeReasons[i] # TypeReasons[j]

\* C14 witness: a call in which both the extension and the MIME type fail
\* returned the reason of the extension check.
C14_Witness ==
    /\ probe.done
    /\ lower(splitext(probe.filename)[2]) \notin ALLOWED_EXTENSIONS
    /\ probe.detected_mime \notin DOMAIN ALLOWED_MIME_TYPES
    /\ probe.result = <<FALSE, "Extension {ext} not allowed">>

TypesOf(ext) ==
    {m \in DOMAIN ALLOWED_MIME_TYPES : ext \in Range(ALLOWED_MIME_TYPES[m])}

\* C17: the extensions registered in ALLOWED_MIME_TYPES are exactly
\* ALLOWED_EXTENSIONS, every allowed extension is registered under exactly
\* one MIME type, and is_allowed_file_type lets a file with an allowed
\* extension pass for exactly one sniffed type, the one that registers it.
C17_TablesAgree ==
    /\ UNION {Range(ALLOWED_MIME_TYPES[m]) : m \in DOMAIN ALLOWED_MIME_TYPES}
          = ALLOWED_EXTENSIONS
    /\ \A ext \in ALLOWED_EXTENSIONS :
          /\ Cardinality(TypesOf(ext)) = 1
          /\ {m \in TypeMimes : is_allowed_file_type(<<"a">> \o ext, m)[1]} = TypesOf(ext)
    /\ (probe.done /\ probe.result[1]) =>
          TypesOf(lower(splitext(probe.filename)[2])) = {probe.detected_mime}

\* C17 witness: a file with the allowed extension .jpeg passed the
\* cross-check for the one type that registers it.
C17_Witness ==
    /\ probe.done
    /\ probe.filename = <<"a">> \o EXT_JPEG
    /\ probe.detected_mime = "image/jpeg"
    /\ probe.result = <<TRUE, None>>

\* C18: at its two call sites is_path_safe returns true: the path of an
\* upload and the path of a retrieval are UPLOAD_FOLDER joined with a name
\* that holds no separator; no upload is answered 'Invalid file path' and
\* no retrieval 403.
C18_PathCheckNeverFails ==
    /\ \A u \in Uploads :
          /\ Named(u) =>
                /\ "/" \notin Range(up[u].secure_name)
                /\ up[u].file_path = UPLOAD_FOLDER \o <<"/">> \o up[u].secure_name
                /\ is_path_safe(up[u].file_path, UPLOAD_FOLDER)
                /\ up[u].stages[1] = <<"path", TRUE>>
          /\ up[u].resp.error # "Invalid file path"
    /\ \A g \in Gets :
          get[g].pc # "idle" =>
              /\ "/" \notin Range(get[g].safe_filename)
              /\ get[g].file_path = UPLOAD_FOLDER \o <<"/">> \o get[g].safe_filename
              /\ is_path_safe(get[g].file_path, UPLOAD_FOLDER)
              /\ get[g].resp.status # 403

\* C18 witness: a retrieval of ../../etc/passwd passed the path check and
\* was answered 404.
C18_Witness ==
    \E g \in Gets :
        /\ get[g].pc = "done"
        /\ get[g].filename = EtcPasswd
        /\ get[g].resp.status = 404

\* C19: an attempt is given the oversize reason of the size re-check only
\* when the size measured for its stored file is greater than
\* MAX_FILE_SIZE.
C19_OversizeOnlyWhenTooLarge ==
    \A u \in Uploads :
        (IF Done(u) THEN up[u].resp ELSE up[u].pending).error
              = "File size ({file_size}MB) exceeds maximum allowed size ({MAX_FILE_SIZE}MB)"
           => up[u].file_size > MAX_FILE_SIZE

====
